---- MODULE Spec2Model ----
(***************************************************************************)
(* Vigil responder routes (src/src/responder/routes.rs): the report, flush *)
(* and admin-toggle handlers running on concurrent worker threads over the *)
(* process-wide PROBER_STORE (a reader/writer lock around the states and   *)
(* the disabled set).  The handlers of crate::prober::report and the       *)
(* plugin dispatch are not part of routes.rs; they are modelled from the   *)
(* design document (sections 3, 4.2 - 4.4).                                *)
(***************************************************************************)
EXTENDS Integers, FiniteSets, Sequences, TLC

\* Number of requests the workers take in one behaviour.
MaxOps == 3

\* Worker threads of the HTTP server; each runs one handler at a time.
Workers == {"t1", "t2"}

None == "none"

----------------------------------------------------------------------------
\* Probe registry and request inputs

\* Probe -> node -> declared mode.  Fixed after start-up.
Registry == [api |-> [w1 |-> "push"], web |-> [l1 |-> "local"]]

\* Identifiers a request may carry: "unknown" is no registered probe, and "l1"
\* is no node of "api".  The push node has two replicas, the local node one.
ProbeIds == {"api", "web", "unknown"}
Paths == {<<"api", "w1", "r1">>, <<"api", "w1", "r2">>, <<"web", "l1", "r1">>,
          <<"api", "l1", "r1">>, <<"unknown", "w1", "r1">>}

\* ReporterPayload.load: Option<{cpu, ram}>; a negative value is out of range.
NoLoad == [present |-> FALSE, cpu |-> 0, ram |-> 0]
Loads == {[present |-> TRUE, cpu |-> 1, ram |-> 2],
          [present |-> TRUE, cpu |-> 2, ram |-> 1],
          [present |-> TRUE, cpu |-> -1, ram |-> 1]}
\* ReporterPayload.health: Option<health>.
Healths == {"healthy", "sick"}
Intervals == {10}
\* The payloads submitted: every load and health alone, neither, and each load
\* together with one health value (the load arm never reads data.health).
Payloads == {pl \in [load : Loads \cup {NoLoad}, health : Healths \cup {None}] :
               (pl.load.present /\ pl.health # None) => pl.health = "healthy"}

RegisteredProbes == DOMAIN Registry

FindNode(p, n) ==
    IF p \in DOMAIN Registry
    THEN IF n \in DOMAIN Registry[p] THEN Registry[p][n] ELSE None
    ELSE None

\* The replicas a registered node may hold.
Slots == {k \in Paths : FindNode(k[1], k[2]) # None}

----------------------------------------------------------------------------
\* State

VARIABLES
    disabled,     \* store.disabled_services
    replicas,     \* store.states.probes[p].nodes[n].replicas[r]
    probeStatus,  \* store.states.probes[p].status
    status,       \* store.states.status
    lock,         \* PROBER_STORE's reader/writer lock
    pc,           \* position of each worker in its handler
    req,          \* the request each worker is serving, with its outcome
    lastw,        \* history: the worker whose write last changed a replica
    nDispatch,    \* history: invocations of run_dispatch_plugins
    nAccLoad,     \* history: load reports answered 200
    toggles,      \* history: the last two toggles served, oldest first
    ops           \* requests taken so far

vars == <<disabled, replicas, probeStatus, status, lock, pc, req, lastw,
          nDispatch, nAccLoad, toggles, ops>>

store == <<disabled, replicas, probeStatus, status>>

Absent == [kind |-> "absent", cpu |-> 0, ram |-> 0, interval |-> 0,
           health |-> None, gen |-> 0]

NoReq == [op |-> None, probe |-> None, node |-> None, replica |-> None,
          load |-> NoLoad, health |-> None, interval |-> 0,
          route |-> None, gen |-> 0, res |-> None, applied |-> None,
          out |-> None, body |-> {}, ndisp |-> 0, dprobe |-> None,
          dnode |-> None, dfwd |-> NoLoad,
          kind |-> None, seen |-> None, listed |-> {}]

Unlocked == [writer |-> None, readers |-> {}]

Init ==
    /\ disabled = {}
    /\ replicas = [k \in Slots |-> Absent]
    /\ probeStatus = [p \in RegisteredProbes |-> "healthy"]
    /\ status = "healthy"
    /\ lock = Unlocked
    /\ pc = [w \in Workers |-> "idle"]
    /\ req = [w \in Workers |-> NoReq]
    /\ lastw = [k \in Slots |-> None]
    /\ nDispatch = 0
    /\ nAccLoad = 0
    /\ toggles = <<>>
    /\ ops = 0

\* RwLock: write() needs no holder at all, read() needs no writer.
\* Variant: write() is granted while read guards are live.
CanWrite_IgnoresReaders == lock.writer = None

CanWrite == lock.writer = None /\ lock.readers = {}
CanRead == lock.writer = None

AcquireRead(lk, w) == [lk EXCEPT !.readers = @ \cup {w}]

\* Variant: the read guard is never dropped.
ReleaseRead_Leak(lk, w) == lk

\* Drop of a read guard.
ReleaseRead(lk, w) == [lk EXCEPT !.readers = @ \ {w}]

Holds(w) == lock.writer = w \/ w \in lock.readers

----------------------------------------------------------------------------
\* Admin toggle: disable_service, enable_service

\* Variant: the search loop is skipped and every name counts as found.
FoundIt_NoSearch(service_name) == TRUE

\* The loop over states.probes of disable_service.
FoundIt(service_name) == \E probe_id \in RegisteredProbes : probe_id = service_name

\* Variant: the toggle stores a fresh overall status.
ToggleStatus_Reset(st) == "healthy"

\* disable_service (line 92) only reads `states` and enable_service never
\* names it: the stored overall status after a toggle is the one before it.
ToggleStatus(st) == st

\* Variant: the insert is not guarded by found_it.
DisableSet_Unguarded(ds, service_name) == ds \cup {service_name}

\* The Disabled set disable_service leaves.
DisableSet(ds, service_name) ==
    IF FoundIt(service_name) THEN ds \cup {service_name} ELSE ds

\* What disable_service answers: the message, or the printed set.
DisableOut(service_name) ==
    IF FoundIt(service_name) THEN "Listing" ELSE "CouldNotFindService"

\* Variant: clear() in place of remove(&service_name).
EnableSet_Clear(ds, service_name) ==
    IF service_name \in ds THEN {} ELSE ds

\* The Disabled set enable_service leaves.
EnableSet(ds, service_name) ==
    IF service_name \in ds THEN ds \ {service_name} ELSE ds

\* Variant: the else arm of enable_service prints the set as well.
EnableOut_NoError(ds, service_name) == "Listing"

EnableOut(ds, service_name) ==
    IF service_name \in ds THEN "Listing" ELSE "CouldNotFindDisabled"

\* The toggle history keeps two entries.
Last2(sq) == IF Len(sq) > 2 THEN Tail(sq) ELSE sq

\* disable_service, line 91: the write guard is taken first.
DisableAcquire(w) ==
    /\ pc[w] = "idle"
    /\ ops < MaxOps
    /\ CanWrite
    /\ \E p \in ProbeIds :
          req' = [req EXCEPT ![w] = [NoReq EXCEPT !.op = "disable", !.probe = p]]
    /\ lock' = [lock EXCEPT !.writer = w]
    /\ pc' = [pc EXCEPT ![w] = "disable_cs"]
    /\ ops' = ops + 1
    /\ UNCHANGED <<disabled, replicas, probeStatus, status, lastw, nDispatch, nAccLoad, toggles>>

\* disable_service, lines 92-107: search, insert, format; the guard drops on return.
DisableBody(w) ==
    /\ pc[w] = "disable_cs"
    /\ lock.writer = w
    /\ disabled' = DisableSet(disabled, req[w].probe)
    /\ req' = [req EXCEPT ![w].out = DisableOut(req[w].probe),
                          ![w].body = IF FoundIt(req[w].probe) THEN disabled' ELSE {}]
    /\ toggles' = Last2(Append(toggles, [op |-> "disable", probe |-> req[w].probe,
                                          before |-> disabled,
                                          ok |-> FoundIt(req[w].probe)]))
    /\ lock' = Unlocked
    /\ pc' = [pc EXCEPT ![w] = "done"]
    /\ status' = ToggleStatus(status)
    /\ UNCHANGED <<replicas, probeStatus, lastw, nDispatch, nAccLoad, ops>>

\* enable_service, line 110.
EnableAcquire(w) ==
    /\ pc[w] = "idle"
    /\ ops < MaxOps
    /\ CanWrite
    /\ \E p \in ProbeIds :
          req' = [req EXCEPT ![w] = [NoReq EXCEPT !.op = "enable", !.probe = p]]
    /\ lock' = [lock EXCEPT !.writer = w]
    /\ pc' = [pc EXCEPT ![w] = "enable_cs"]
    /\ ops' = ops + 1
    /\ UNCHANGED <<disabled, replicas, probeStatus, status, lastw, nDispatch, nAccLoad, toggles>>

\* enable_service, lines 111-117.
EnableBody(w) ==
    /\ pc[w] = "enable_cs"
    /\ lock.writer = w
    /\ disabled' = EnableSet(disabled, req[w].probe)
    /\ req' = [req EXCEPT ![w].out = EnableOut(disabled, req[w].probe),
                          ![w].body = IF req[w].probe \in disabled THEN disabled' ELSE {}]
    /\ toggles' = Last2(Append(toggles, [op |-> "enable", probe |-> req[w].probe,
                                          before |-> disabled,
                                          ok |-> req[w].probe \in disabled]))
    /\ lock' = Unlocked
    /\ pc' = [pc EXCEPT ![w] = "done"]
    /\ status' = ToggleStatus(status)
    /\ UNCHANGED <<replicas, probeStatus, lastw, nDispatch, nAccLoad, ops>>

----------------------------------------------------------------------------
\* Report classification and application (crate::prober::report, from the
\* design document) and the replica states they keep

\* A load body is well formed when its numeric fields are in range.
WellFormed(load) == load.present /\ load.cpu >= 0 /\ load.ram >= 0

\* Classifier for a load body: registry lookup, then mode, then the fields.
ClassifyLoad(p, n, load) ==
    IF FindNode(p, n) = None THEN "NotFound"
    ELSE IF FindNode(p, n) # "push" THEN "WrongMode"
    ELSE IF ~WellFormed(load) THEN "InvalidLoad"
    ELSE "Ok"

\* Classifier for a health body: registry lookup, then mode.
ClassifyHealth(p, n) ==
    IF FindNode(p, n) = None THEN "NotFound"
    ELSE IF FindNode(p, n) # "local" THEN "WrongMode"
    ELSE "Ok"

\* Ordering guard: a report classified under an older flush generation than the
\* replica's current one is dropped.
Stale(reps, k, gen) == gen < reps[k].gen

\* Applier, load report: cpu, ram and interval into the replica's state.
ApplyLoad(reps, k, load, interval, gen) ==
    IF Stale(reps, k, gen) THEN reps
    ELSE [reps EXCEPT ![k] = [kind |-> "load", cpu |-> load.cpu, ram |-> load.ram,
                              interval |-> interval, health |-> None,
                              gen |-> reps[k].gen]]

\* Applier, health report.
ApplyHealth(reps, k, health, interval, gen) ==
    IF Stale(reps, k, gen) THEN reps
    ELSE [reps EXCEPT ![k] = [kind |-> "health", cpu |-> 0, ram |-> 0,
                              interval |-> interval, health |-> health,
                              gen |-> reps[k].gen]]

\* The forwarding value handed to plugin dispatch: the load metrics.
ForwardValue(load) == [present |-> TRUE, cpu |-> load.cpu, ram |-> load.ram]

\* Flush: NotFound unless the node is registered and the replica has reported.
ClassifyFlush(reps, p, n, r) ==
    IF FindNode(p, n) = None THEN "NotFound"
    ELSE IF <<p, n, r>> \notin DOMAIN reps THEN "NotFound"
    ELSE IF reps[<<p, n, r>>].kind = "absent" THEN "NotFound"
    ELSE "Ok"

\* Flush clears the replica's report data and increments its flush generation.
ApplyFlush(reps, k) ==
    [reps EXCEPT ![k] = [Absent EXCEPT !.kind = "flushed", !.gen = reps[k].gen + 1]]

\* Derived statuses
Rank(s) == CASE s = "healthy" -> 0 [] s = "sick" -> 1 [] s = "dead" -> 2

Worst(S) == IF S = {} THEN "healthy"
            ELSE CHOOSE s \in S : \A t \in S : Rank(t) <= Rank(s)

ReplicaStatus(rs) == IF rs.kind = "health" THEN rs.health ELSE "healthy"

\* A probe's status: the worst among the replicas of its nodes that hold a report.
ProbeStatusOf(reps, p) ==
    Worst({ReplicaStatus(reps[k]) :
             k \in {j \in Slots : j[1] = p /\ reps[j].kind \in {"load", "health"}}})

\* The overall status: the worst among the probes that are not disabled.
OverallStatusOf(ps, ds) == Worst({ps[p] : p \in RegisteredProbes \ ds})

----------------------------------------------------------------------------
\* reporter_report and reporter_flush

\* reporter_report, lines 125, 145, 152: the handler a payload is routed to.
Route(load, health) ==
    IF load.present THEN "load"
    ELSE IF health # None THEN "health"
    ELSE "invalid"

\* Variant: the Ok and InvalidLoad arms exchanged.
LoadResponse_ArmsSwapped(res) ==
    CASE res = "Ok" -> "BadRequest"
      [] res = "InvalidLoad" -> "Ok"
      [] res = "WrongMode" -> "PreconditionFailed"
      [] res = "NotFound" -> "NotFound"

\* Variant: the InvalidLoad arm of the load path answers 404.
LoadResponse_InvalidAsNotFound(res) ==
    CASE res = "Ok" -> "Ok"
      [] res = "InvalidLoad" -> "NotFound"
      [] res = "WrongMode" -> "PreconditionFailed"
      [] res = "NotFound" -> "NotFound"

\* Variant: the WrongMode arm of the load path answers 400.
LoadResponse_WrongModeAsBadRequest(res) ==
    CASE res = "Ok" -> "Ok"
      [] res = "InvalidLoad" -> "BadRequest"
      [] res = "WrongMode" -> "BadRequest"
      [] res = "NotFound" -> "NotFound"

\* reporter_report, lines 134-144.
LoadResponse(res) ==
    CASE res = "Ok" -> "Ok"
      [] res = "InvalidLoad" -> "BadRequest"
      [] res = "WrongMode" -> "PreconditionFailed"
      [] res = "NotFound" -> "NotFound"

\* Variant: the WrongMode and NotFound arms exchanged.
HealthResponse_ArmsSwapped(res) ==
    CASE res = "Ok" -> "Ok"
      [] res = "WrongMode" -> "NotFound"
      [] res = "NotFound" -> "PreconditionFailed"

\* reporter_report, lines 147-151.
HealthResponse(res) ==
    CASE res = "Ok" -> "Ok"
      [] res = "WrongMode" -> "PreconditionFailed"
      [] res = "NotFound" -> "NotFound"

\* Variant: every arm of reporter_flush answers 200.
FlushResponse_AlwaysOk(res) == "Ok"

\* Variant: the NotFound arm of reporter_flush answers 412.
FlushResponse_NotFoundAsWrongMode(res) ==
    CASE res = "Ok" -> "Ok"
      [] res = "WrongMode" -> "PreconditionFailed"
      [] res = "NotFound" -> "PreconditionFailed"

\* reporter_flush, lines 163-167.
FlushResponse(res) ==
    CASE res = "Ok" -> "Ok"
      [] res = "WrongMode" -> "PreconditionFailed"
      [] res = "NotFound" -> "NotFound"

Response(route, res) ==
    CASE route = "load" -> LoadResponse(res)
      [] route = "health" -> HealthResponse(res)
      [] route = "flush" -> FlushResponse(res)
      [] OTHER -> "BadRequest"

\* Variant: the call of run_dispatch_plugins is left out.
Dispatches_Never(route, res) == FALSE

\* Variant: the health arm calls run_dispatch_plugins too.
Dispatches_AnyOk(route, res) == res = "Ok"

\* The match arms of reporter_report that call run_dispatch_plugins (line 137).
Dispatches(route, res) == route = "load" /\ res = "Ok"

AcceptedLoad(route, out) == IF route = "load" /\ out = "Ok" THEN 1 ELSE 0

\* The handler has returned res to the route: dispatch if the arm does, else answer.
Return(w, r, res) ==
    IF Dispatches(r.route, res)
    THEN /\ pc' = [pc EXCEPT ![w] = "dispatch"]
         /\ req' = [req EXCEPT ![w] = [r EXCEPT !.res = res]]
         /\ UNCHANGED nAccLoad
    ELSE /\ pc' = [pc EXCEPT ![w] = "done"]
         /\ req' = [req EXCEPT ![w] = [r EXCEPT !.res = res,
                                                !.out = Response(r.route, res)]]
         /\ nAccLoad' = nAccLoad + AcceptedLoad(r.route, Response(r.route, res))

NewReport(t, load, health, interval) ==
    [NoReq EXCEPT !.op = "report", !.probe = t[1], !.node = t[2], !.replica = t[3],
                  !.load = load, !.health = health, !.interval = interval,
                  !.route = Route(load, health)]

Key_IgnoresReplica(r) == <<r.probe, r.node, "r1">>

Key(r) == <<r.probe, r.node, r.replica>>

\* reporter_report, lines 152-155: neither variant present.
ReportInvalid(w) ==
    /\ pc[w] = "idle"
    /\ ops < MaxOps
    /\ \E t \in Paths, data \in Payloads, interval \in Intervals :
          /\ Route(data.load, data.health) = "invalid"
          /\ Return(w, NewReport(t, data.load, data.health, interval), None)
    /\ ops' = ops + 1
    /\ UNCHANGED <<disabled, replicas, probeStatus, status, lock, lastw, nDispatch, toggles>>

\* handle_load, classification: reads the registry and the replica's generation.
LoadClassify(w) ==
    /\ pc[w] = "idle"
    /\ ops < MaxOps
    /\ CanRead
    /\ \E t \in Paths, data \in Payloads, interval \in Intervals :
          LET q == NewReport(t, data.load, data.health, interval)
              res == ClassifyLoad(q.probe, q.node, q.load) IN
          /\ q.route = "load"
          /\ IF res = "Ok"
             THEN /\ pc' = [pc EXCEPT ![w] = "load_wait"]
                  /\ req' = [req EXCEPT ![w] = [q EXCEPT !.gen = replicas[Key(q)].gen]]
                  /\ UNCHANGED nAccLoad
             ELSE Return(w, q, res)
    /\ ops' = ops + 1
    /\ UNCHANGED <<disabled, replicas, probeStatus, status, lock, lastw, nDispatch, toggles>>

\* handle_load takes the write guard.
LoadAcquire(w) ==
    /\ pc[w] = "load_wait"
    /\ CanWrite
    /\ lock' = [lock EXCEPT !.writer = w]
    /\ pc' = [pc EXCEPT ![w] = "load_cs"]
    /\ UNCHANGED <<disabled, replicas, probeStatus, status, req, lastw, nDispatch,
                   nAccLoad, ops, toggles>>

\* handle_load applies the report, releases the guard and returns Ok(forward).
LoadApply(w) ==
    /\ pc[w] = "load_cs"
    /\ lock.writer = w
    /\ LET q == req[w]
           k == Key(q)
           stale == Stale(replicas, k, q.gen) IN
       /\ replicas' = ApplyLoad(replicas, k, q.load, q.interval, q.gen)
       /\ probeStatus' = [probeStatus EXCEPT ![q.probe] = ProbeStatusOf(replicas', q.probe)]
       /\ lastw' = IF stale THEN lastw ELSE [lastw EXCEPT ![k] = w]
       /\ Return(w, [q EXCEPT !.applied = IF stale THEN "stale" ELSE "yes",
                              !.dfwd = ForwardValue(q.load)], "Ok")
    /\ lock' = Unlocked
    /\ UNCHANGED <<disabled, status, nDispatch, ops, toggles>>

\* reporter_report, lines 137-139: run_dispatch_plugins, then 200.
Dispatch(w) ==
    /\ pc[w] = "dispatch"
    /\ nDispatch' = nDispatch + 1
    /\ req' = [req EXCEPT ![w].ndisp = @ + 1,
                          ![w].dprobe = req[w].probe,
                          ![w].dnode = req[w].node,
                          ![w].out = Response(req[w].route, req[w].res)]
    /\ nAccLoad' = nAccLoad + AcceptedLoad(req[w].route, Response(req[w].route, req[w].res))
    /\ pc' = [pc EXCEPT ![w] = "done"]
    /\ UNCHANGED <<disabled, replicas, probeStatus, status, lock, lastw, ops, toggles>>

\* handle_health, classification.
HealthClassify(w) ==
    /\ pc[w] = "idle"
    /\ ops < MaxOps
    /\ CanRead
    /\ \E t \in Paths, data \in Payloads, interval \in Intervals :
          LET q == NewReport(t, data.load, data.health, interval)
              res == ClassifyHealth(q.probe, q.node) IN
          /\ q.route = "health"
          /\ IF res = "Ok"
             THEN /\ pc' = [pc EXCEPT ![w] = "health_wait"]
                  /\ req' = [req EXCEPT ![w] = [q EXCEPT !.gen = replicas[Key(q)].gen]]
                  /\ UNCHANGED nAccLoad
             ELSE Return(w, q, res)
    /\ ops' = ops + 1
    /\ UNCHANGED <<disabled, replicas, probeStatus, status, lock, lastw, nDispatch, toggles>>

HealthAcquire(w) ==
    /\ pc[w] = "health_wait"
    /\ CanWrite
    /\ lock' = [lock EXCEPT !.writer = w]
    /\ pc' = [pc EXCEPT ![w] = "health_cs"]
    /\ UNCHANGED <<disabled, replicas, probeStatus, status, req, lastw, nDispatch,
                   nAccLoad, ops, toggles>>

\* handle_health applies the report, releases the guard and returns Ok.
HealthApply(w) ==
    /\ pc[w] = "health_cs"
    /\ lock.writer = w
    /\ LET q == req[w]
           k == Key(q)
           stale == Stale(replicas, k, q.gen) IN
       /\ replicas' = ApplyHealth(replicas, k, q.health, q.interval, q.gen)
       /\ probeStatus' = [probeStatus EXCEPT ![q.probe] = ProbeStatusOf(replicas', q.probe)]
       /\ lastw' = IF stale THEN lastw ELSE [lastw EXCEPT ![k] = w]
       /\ Return(w, [q EXCEPT !.applied = IF stale THEN "stale" ELSE "yes"], "Ok")
    /\ lock' = Unlocked
    /\ UNCHANGED <<disabled, status, nDispatch, ops, toggles>>

\* reporter_flush, line 163: handle_flush takes the write guard.
FlushAcquire(w) ==
    /\ pc[w] = "idle"
    /\ ops < MaxOps
    /\ CanWrite
    /\ \E t \in Paths :
          req' = [req EXCEPT ![w] = [NoReq EXCEPT !.op = "flush", !.probe = t[1],
                                                  !.node = t[2], !.replica = t[3],
                                                  !.route = "flush"]]
    /\ lock' = [lock EXCEPT !.writer = w]
    /\ pc' = [pc EXCEPT ![w] = "flush_cs"]
    /\ ops' = ops + 1
    /\ UNCHANGED <<disabled, replicas, probeStatus, status, lastw, nDispatch, nAccLoad, toggles>>

\* handle_flush validates and resets the replica; reporter_flush answers.
FlushBody(w) ==
    /\ pc[w] = "flush_cs"
    /\ lock.writer = w
    /\ LET q == req[w]
           res == ClassifyFlush(replicas, q.probe, q.node, q.replica) IN
       IF res = "Ok"
       THEN /\ replicas' = ApplyFlush(replicas, Key(q))
            /\ probeStatus' = [probeStatus EXCEPT
                                  ![q.probe] = ProbeStatusOf(replicas', q.probe)]
            /\ lastw' = [lastw EXCEPT ![Key(q)] = w]
            /\ Return(w, [q EXCEPT !.applied = "yes", !.gen = replicas'[Key(q)].gen], res)
       ELSE /\ UNCHANGED <<replicas, probeStatus, lastw>>
            /\ Return(w, q, res)
    /\ lock' = Unlocked
    /\ UNCHANGED <<disabled, status, nDispatch, ops, toggles>>

----------------------------------------------------------------------------
\* index, status_text and badge

Kinds == {"status", "other"}

\* The badge images present under assets/images/badges.
BadgeFiles == {<<"status", "healthy">>, <<"status", "sick">>, <<"status", "dead">>}

\* badge, line 62: format!("{}-{}-default.svg", kind, status).
BadgeName(kind, st) == <<kind, st>>

\* Variant: the detailed view leaves the disabled probes out.
Listed_EnabledOnly(ps, ds) == {<<p, ps[p]>> : p \in RegisteredProbes \ ds}

\* index, line 25: the context borrows the whole of `states`, so the page lists
\* every probe with its own status.
Listed(ps, ds) == {<<p, ps[p]>> : p \in RegisteredProbes}

\* index, lines 23-29: the read guard is a temporary of the block's tail
\* expression, which the context borrows from; the borrow extends its life to
\* the end of the function body, so it is still held when line 30 starts.
IndexAcquire(w) ==
    /\ pc[w] = "idle"
    /\ ops < MaxOps
    /\ CanRead
    /\ lock' = AcquireRead(lock, w)
    /\ req' = [req EXCEPT ![w] = [NoReq EXCEPT !.op = "index"]]
    /\ pc' = [pc EXCEPT ![w] = "index_render"]
    /\ ops' = ops + 1
    /\ UNCHANGED <<disabled, replicas, probeStatus, status, lastw, nDispatch, nAccLoad, toggles>>

\* index, lines 30-39: serialise the borrowed states, render the template, build
\* the response; the guard drops on return.
IndexRender(w) ==
    /\ pc[w] = "index_render"
    /\ \E rendered \in BOOLEAN :
          req' = [req EXCEPT ![w].seen = status,
                             ![w].listed = Listed(probeStatus, disabled),
                             ![w].out = IF rendered THEN "Ok" ELSE "InternalServerError"]
    /\ lock' = ReleaseRead(lock, w)
    /\ pc' = [pc EXCEPT ![w] = "done"]
    /\ UNCHANGED <<disabled, replicas, probeStatus, status, lastw, nDispatch, nAccLoad,
                   ops, toggles>>

\* status_text, line 48: read().
StatusTextAcquire(w) ==
    /\ pc[w] = "idle"
    /\ ops < MaxOps
    /\ CanRead
    /\ lock' = AcquireRead(lock, w)
    /\ req' = [req EXCEPT ![w] = [NoReq EXCEPT !.op = "status_text"]]
    /\ pc' = [pc EXCEPT ![w] = "status_cs"]
    /\ ops' = ops + 1
    /\ UNCHANGED <<disabled, replicas, probeStatus, status, lastw, nDispatch, nAccLoad, toggles>>

\* status_text, lines 48-49: states.status.as_str() is the body; the guard drops
\* on return.
StatusTextRead(w) ==
    /\ pc[w] = "status_cs"
    /\ req' = [req EXCEPT ![w].seen = status, ![w].out = "Ok"]
    /\ lock' = ReleaseRead(lock, w)
    /\ pc' = [pc EXCEPT ![w] = "done"]
    /\ UNCHANGED <<disabled, replicas, probeStatus, status, lastw, nDispatch, nAccLoad,
                   ops, toggles>>

\* badge, line 54: read().
BadgeAcquire(w) ==
    /\ pc[w] = "idle"
    /\ ops < MaxOps
    /\ CanRead
    /\ lock' = AcquireRead(lock, w)
    /\ \E kind \in Kinds :
          req' = [req EXCEPT ![w] = [NoReq EXCEPT !.op = "badge", !.kind = kind]]
    /\ pc' = [pc EXCEPT ![w] = "badge_cs"]
    /\ ops' = ops + 1
    /\ UNCHANGED <<disabled, replicas, probeStatus, status, lastw, nDispatch, nAccLoad, toggles>>

\* badge, line 54: as_str() yields a 'static str, nothing borrows from the guard,
\* and the guard drops at the end of the let statement.
BadgeRead(w) ==
    /\ pc[w] = "badge_cs"
    /\ req' = [req EXCEPT ![w].seen = status]
    /\ lock' = ReleaseRead(lock, w)
    /\ pc' = [pc EXCEPT ![w] = "badge_open"]
    /\ UNCHANGED <<disabled, replicas, probeStatus, status, lastw, nDispatch, nAccLoad,
                   ops, toggles>>

\* badge, lines 56-64: NamedFile::open(..).ok().
BadgeOpen(w) ==
    /\ pc[w] = "badge_open"
    /\ req' = [req EXCEPT ![w].out =
                  IF BadgeName(req[w].kind, req[w].seen) \in BadgeFiles
                  THEN "Ok" ELSE "NotFound"]
    /\ pc' = [pc EXCEPT ![w] = "done"]
    /\ UNCHANGED <<disabled, replicas, probeStatus, status, lock, lastw, nDispatch,
                   nAccLoad, ops, toggles>>

\* The prober's aggregation pass recomputes the stored overall status (a pass
\* that finds it unchanged is a stuttering step).
Aggregate ==
    /\ CanWrite
    /\ status # OverallStatusOf(probeStatus, disabled)
    /\ status' = OverallStatusOf(probeStatus, disabled)
    /\ UNCHANGED <<disabled, replicas, probeStatus, lock, pc, req, lastw, nDispatch,
                   nAccLoad, ops, toggles>>

\* The response has been sent; the worker takes the next request.
Finish(w) ==
    /\ pc[w] = "done"
    /\ pc' = [pc EXCEPT ![w] = "idle"]
    /\ req' = [req EXCEPT ![w] = NoReq]
    /\ lastw' = [k \in Slots |-> IF lastw[k] = w THEN None ELSE lastw[k]]
    /\ UNCHANGED <<disabled, replicas, probeStatus, status, lock, nDispatch, nAccLoad, ops, toggles>>

Next ==
    \E w \in Workers :
        \/ DisableAcquire(w)
        \/ DisableBody(w)
        \/ EnableAcquire(w)
        \/ EnableBody(w)
        \/ ReportInvalid(w)
        \/ LoadClassify(w)
        \/ LoadAcquire(w)
        \/ LoadApply(w)
        \/ Dispatch(w)
        \/ HealthClassify(w)
        \/ HealthAcquire(w)
        \/ HealthApply(w)
        \/ FlushAcquire(w)
        \/ FlushBody(w)
        \/ IndexAcquire(w)
        \/ IndexRender(w)
        \/ StatusTextAcquire(w)
        \/ StatusTextRead(w)
        \/ BadgeAcquire(w)
        \/ BadgeRead(w)
        \/ BadgeOpen(w)
        \/ Finish(w)
        \/ Aggregate

Spec == Init /\ [][Next]_vars

\* A handler that is not waiting for the lock runs on.
Progress(w) ==
    \/ DisableBody(w) \/ EnableBody(w) \/ LoadApply(w) \/ Dispatch(w)
    \/ HealthApply(w) \/ FlushBody(w) \/ IndexRender(w) \/ StatusTextRead(w)
    \/ BadgeRead(w) \/ BadgeOpen(w)

\* A handler waiting in write() is granted the lock.
Granted(w) == LoadAcquire(w) \/ HealthAcquire(w)

\* Handlers run to completion and the lock is granted fairly.
FairSpec ==
    Spec /\ \A w \in Workers : WF_vars(Progress(w)) /\ SF_vars(Granted(w))

----------------------------------------------------------------------------
\* Properties

Done(w) == pc[w] = "done"
Completes(w) == pc[w] # "done" /\ pc'[w] = "done"
Mode(q) == FindNode(q.probe, q.node)
LoadOnly(q) == q.op = "report" /\ q.load.present /\ q.health = None
HealthOnly(q) == q.op = "report" /\ ~q.load.present /\ q.health # None
BothPresent(q) == q.op = "report" /\ q.load.present /\ q.health # None
NeitherPresent(q) == q.op = "report" /\ ~q.load.present /\ q.health = None
ShowsLoad(k, load) ==
    /\ replicas[k].kind = "load"
    /\ replicas[k].cpu = load.cpu
    /\ replicas[k].ram = load.ram

WrongKind(q) ==
    \/ HealthOnly(q) /\ Mode(q) = "push"
    \/ LoadOnly(q) /\ Mode(q) = "local"

\* C2: a health report to a Push node and a load report to a Local node are
\* answered 412 and no step of their handler changes the store; a health report
\* to a Local node is answered 200.
C2_WrongModeUnchanged ==
    [][\A w \in Workers :
          /\ (pc'[w] # pc[w] /\ WrongKind(req'[w])) => store' = store
          /\ (Completes(w) /\ WrongKind(req'[w]))
             => /\ req'[w].out = "PreconditionFailed"
                /\ req'[w].applied = None
                /\ req'[w].ndisp = 0
          /\ (Completes(w) /\ HealthOnly(req'[w]) /\ Mode(req'[w]) = "local")
             => req'[w].out = "Ok"]_vars

C2_Witness ==
    \E w \in Workers :
        /\ Done(w) /\ WrongKind(req[w])
        /\ req[w].out = "PreconditionFailed"
        /\ \E k \in Slots : replicas[k].kind # "absent"

\* C3: a report for an unregistered probe, or for a node not registered under
\* the probe, is answered 404 whatever the payload shape.
C3_UnregisteredNotFound ==
    \A w \in Workers :
        (Done(w) /\ req[w].op = "report" /\ Mode(req[w]) = None)
        => req[w].out = "NotFound"

\* C4: a report is accepted only with exactly one of the two variants: a
\* payload with both, or with neither, is rejected, is not applied to the store
\* and is not dispatched to the plugins.
C4_ExactlyOneVariant ==
    \A w \in Workers :
        (Done(w) /\ (BothPresent(req[w]) \/ NeitherPresent(req[w])))
        => /\ req[w].out # "Ok"
           /\ req[w].applied = None
           /\ req[w].ndisp = 0

\* C5: an accepted load report is dispatched exactly once, with its probe id,
\* node id and forward value, after handle_load has committed and released the
\* write guard; the dispatch step changes nothing in the store.
C5_DispatchOnceAfterCommit ==
    /\ [](\A w \in Workers :
            /\ (Done(w) /\ req[w].route = "load" /\ req[w].out = "Ok")
               => /\ req[w].ndisp = 1
                  /\ req[w].dprobe = req[w].probe
                  /\ req[w].dnode = req[w].node
                  /\ req[w].dfwd = ForwardValue(req[w].load)
            /\ req[w].ndisp <= 1
            /\ (pc[w] = "dispatch" \/ req[w].ndisp > 0)
               => /\ req[w].applied \in {"yes", "stale"}
                  /\ req[w].res = "Ok"
                  /\ lock.writer # w)
    /\ [][\A w \in Workers :
            /\ req'[w].ndisp > req[w].ndisp => store' = store
            /\ (req[w].route = "load" /\ req[w].applied = None /\ req'[w].applied = "yes")
               => /\ ShowsLoad(Key(req[w]), req[w].load)'
                  /\ req'[w].ndisp = 0]_vars

C5_Witness ==
    \E w \in Workers :
        /\ Done(w) /\ req[w].route = "load" /\ req[w].out = "Ok"
        /\ req[w].applied = "yes"
        /\ req[w].ndisp = 1

\* C6: run_dispatch_plugins is invoked as many times as load reports are
\* answered 200, and never by a health report, a flush, a toggle or a rejected
\* report.
C6_DispatchOnlyForAcceptedLoad ==
    /\ nDispatch = nAccLoad
    /\ \A w \in Workers :
          (req[w].route # "load" \/ (Done(w) /\ req[w].out # "Ok"))
          => (req[w].ndisp = 0 /\ pc[w] # "dispatch")

C6_Witness ==
    /\ nDispatch = 1
    /\ \E w \in Workers : Done(w) /\ req[w].route = "health" /\ req[w].out = "Ok"

\* C7: a report classified under a generation older than the replica's flush
\* generation is dropped and leaves the replica states as they are; a report at
\* the current generation is applied; each flush answered 200 increments the
\* replica's flush generation.
C7_StaleReportDropped ==
    [][\A w \in Workers :
          /\ (pc[w] \in {"load_cs", "health_cs"} /\ pc'[w] # pc[w])
             => IF req[w].gen < replicas[Key(req[w])].gen
                THEN replicas' = replicas /\ req'[w].applied = "stale"
                ELSE /\ req'[w].applied = "yes"
                     /\ replicas'[Key(req[w])].gen = replicas[Key(req[w])].gen
                     /\ IF pc[w] = "load_cs"
                        THEN ShowsLoad(Key(req[w]), req[w].load)'
                        ELSE /\ replicas'[Key(req[w])].kind = "health"
                             /\ replicas'[Key(req[w])].health = req[w].health
          /\ (pc[w] = "flush_cs" /\ pc'[w] # pc[w] /\ req'[w].out = "Ok")
             => /\ Key(req[w]) \in Slots
                /\ replicas'[Key(req[w])].kind = "flushed"
                /\ replicas'[Key(req[w])].gen = replicas[Key(req[w])].gen + 1]_vars

C7_Witness ==
    \E w \in Workers :
        /\ req[w].applied = "stale"
        /\ replicas[Key(req[w])].kind = "flushed"

\* The last two toggles were disable(p) then enable(p).
DisableThenEnable ==
    /\ Len(toggles) = 2
    /\ toggles[1].op = "disable"
    /\ toggles[2].op = "enable"
    /\ toggles[1].probe = toggles[2].probe

\* C8 as claimed: disable(p) then enable(p) leaves the Disabled set as it was
\* before the disable, whether or not p was a member.
C8_DisableEnableRestores ==
    DisableThenEnable => disabled = toggles[1].before

\* C8, amended: disable(p) then enable(p) leaves the Disabled set as it was
\* before the disable when p was not a member; when p was a member it leaves
\* that set without p.
C8_DisableEnableRestoresNonMember ==
    DisableThenEnable
    => disabled = toggles[1].before \ {toggles[1].probe}

C8_Witness ==
    /\ DisableThenEnable
    /\ toggles[1].ok
    /\ toggles[1].probe \notin toggles[1].before
    /\ disabled = toggles[1].before
    /\ disabled # {}

\* C9: enable(p) for p outside the Disabled set answers the "could not find
\* disabled service" message and leaves the set as it is; for a member it
\* removes exactly p and prints the remaining set.
C9_EnableOutcome ==
    [][\A w \in Workers :
          (pc[w] = "enable_cs" /\ pc'[w] # pc[w])
          => IF req[w].probe \in disabled
             THEN /\ disabled' = disabled \ {req[w].probe}
                  /\ req'[w].out = "Listing"
                  /\ req'[w].body = disabled'
             ELSE /\ disabled' = disabled
                  /\ req'[w].out = "CouldNotFindDisabled"]_vars

C9_Witness ==
    \E w \in Workers :
        /\ Done(w) /\ req[w].op = "enable"
        /\ req[w].out = "CouldNotFindDisabled"
        /\ disabled # {}

\* The last two toggles were disable(p) twice, p a registered probe.
DisableTwice ==
    /\ Len(toggles) = 2
    /\ toggles[1].op = "disable"
    /\ toggles[2].op = "disable"
    /\ toggles[1].probe = toggles[2].probe
    /\ toggles[1].probe \in RegisteredProbes

\* C10: disable(p) for an unregistered p answers the "could not find service"
\* message and leaves the Disabled set as it is; for a registered p it inserts p
\* and prints the set, and a second disable(p) succeeds too and leaves the set
\* of the first.
C10_DisableOutcome ==
    /\ [](DisableTwice
          => /\ toggles[1].ok /\ toggles[2].ok
             /\ disabled = toggles[2].before
             /\ disabled = toggles[1].before \cup {toggles[1].probe})
    /\ [][\A w \in Workers :
            (pc[w] = "disable_cs" /\ pc'[w] # pc[w])
            => IF req[w].probe \in RegisteredProbes
               THEN /\ disabled' = disabled \cup {req[w].probe}
                    /\ req'[w].out = "Listing"
                    /\ req'[w].body = disabled'
               ELSE /\ disabled' = disabled
                    /\ req'[w].out = "CouldNotFindService"]_vars

C10_Witness ==
    /\ DisableTwice
    /\ \E w \in Workers : Done(w) /\ req[w].op = "disable" /\ req[w].out = "Listing"

PathOf(q) == <<q.probe, q.node, q.replica>>
AppliedLoad(w) ==
    /\ Done(w) /\ LoadOnly(req[w]) /\ Mode(req[w]) = "push"
    /\ WellFormed(req[w].load)
ConcurrentLoads(w, v) ==
    /\ w # v /\ AppliedLoad(w) /\ AppliedLoad(v)
    /\ req[w].probe = req[v].probe /\ req[w].node = req[v].node
    /\ req[w].replica # req[v].replica

\* C11: load reports for distinct replicas of the same Push node, served at the
\* same time by different workers, are all answered 200; the step that applies
\* one of them changes the state of its own replica only, and once both have
\* returned each replica holds the cpu and ram of its own report for as long as
\* that report is the last write to it.
C11_DistinctReplicasIndependent ==
    /\ [](\A w, v \in Workers :
            ConcurrentLoads(w, v)
            => /\ req[w].out = "Ok" /\ req[v].out = "Ok"
               /\ (req[w].applied = "yes" /\ lastw[PathOf(req[w])] = w)
                  => ShowsLoad(PathOf(req[w]), req[w].load))
    /\ [][\A w \in Workers :
            (LoadOnly(req[w]) /\ req[w].applied = None /\ req'[w].applied = "yes")
            => /\ ShowsLoad(PathOf(req[w]), req[w].load)'
               /\ \A k \in Slots \ {PathOf(req[w])} : replicas'[k] = replicas[k]]_vars

C11_Witness ==
    \E w, v \in Workers :
        /\ ConcurrentLoads(w, v)
        /\ req[w].applied = "yes" /\ req[v].applied = "yes"
        /\ req[w].load # req[v].load
        /\ ShowsLoad(PathOf(req[w]), req[w].load)
        /\ ShowsLoad(PathOf(req[v]), req[v].load)

\* The steps that render a template, open a file or run the dispatch plugins.
IoPcs == {"index_render", "badge_open", "dispatch"}

\* C12: in every reachable state no handler that is rendering the index
\* template, opening a badge file or dispatching to the plugins holds the store
\* lock, read or write.
C12_NoIoUnderLock ==
    \A w \in Workers : pc[w] \in IoPcs => ~Holds(w)

WriteCs == {"disable_cs", "enable_cs", "load_cs", "health_cs", "flush_cs"}
ReadCs == {"index_render", "status_cs", "badge_cs"}

LockDiscipline ==
    /\ lock.writer # None => lock.readers = {}
    /\ \A w \in Workers :
          /\ pc[w] \in WriteCs <=> lock.writer = w
          /\ pc[w] \in ReadCs <=> w \in lock.readers

\* C13: the writer holds the store lock alone; the store changes only in the
\* step with which the lock-holding writer ends its critical section (or in an
\* aggregation pass taken with the lock free), so a worker inside a read or
\* write critical section never sees the store change under it, a reader's
\* snapshot is the store before or after each write, and a toggle's membership
\* check and its insert or remove act on the same value of the Disabled set.
C13_Linearizable ==
    /\ []LockDiscipline
    /\ [][/\ store' # store
             => /\ lock.readers = {}
                /\ \/ /\ lock.writer \in Workers
                      /\ pc[lock.writer] \in WriteCs
                      /\ pc'[lock.writer] \notin WriteCs
                      /\ lock'.writer = None
                   \/ lock.writer = None /\ lock' = lock /\ pc' = pc
          /\ \A w \in Workers :
                /\ (Holds(w) /\ pc'[w] = pc[w]) => store' = store
                /\ (pc[w] \in ReadCs /\ pc'[w] # pc[w])
                   => req'[w].seen = status /\ store' = store
                /\ (pc[w] = "disable_cs" /\ pc'[w] # pc[w])
                   => /\ disabled' = DisableSet(disabled, req[w].probe)
                      /\ req'[w].out = "Listing" => req'[w].body = disabled'
                /\ (pc[w] = "enable_cs" /\ pc'[w] # pc[w])
                   => /\ req'[w].out = "Listing" <=> req[w].probe \in disabled
                      /\ disabled' = disabled \ {req[w].probe}]_vars

\* A toggle is inside its critical section while a report waits for the lock.
C13_Witness ==
    \E w, v \in Workers :
        /\ pc[w] \in {"disable_cs", "enable_cs"}
        /\ pc[v] \in {"load_wait", "health_wait"}
        /\ disabled # {}

Started(w) == pc[w] \notin {"idle", "done"}
Waiting(w) == pc[w] \in {"load_wait", "health_wait"}

\* C14: a handler that waits for the store lock holds no guard of it, a
\* handler that holds a guard can always take its next step, some started
\* handler can always step, and with handlers running on and the lock granted
\* fairly every started request reaches its response, which is set exactly
\* once, when the request completes.
C14_NoDeadlockAndCompletion ==
    /\ [](\A w \in Workers :
            /\ Waiting(w) => ~Holds(w)
            /\ Holds(w) => ENABLED Progress(w)
            /\ Done(w) <=> req[w].out # None)
    /\ []((\E w \in Workers : Started(w))
          => \E w \in Workers : ENABLED (Progress(w) \/ Granted(w)))
    /\ \A w \in Workers : Started(w) ~> Done(w)

\* A report waits for the lock while index renders under its read guard.
C14_Witness ==
    \E w, v \in Workers :
        /\ Waiting(w)
        /\ pc[v] = "index_render"
        /\ v \in lock.readers

Exposes(w) == pc[w] \in {"status_cs", "badge_cs"} /\ pc'[w] # pc[w]
ListsAll(w) ==
    (pc[w] = "index_render" /\ pc'[w] # pc[w])
    => req'[w].listed = {<<p, probeStatus[p]>> : p \in RegisteredProbes}

ReplicaExists(q) ==
    /\ Mode(q) # None
    /\ PathOf(q) \in Slots
    /\ replicas[PathOf(q)].kind # "absent"

\* C16: a flush of an existing replica of a registered node is answered 200
\* whether the node is Push or Local; a flush naming an unknown probe, node or
\* replica is answered 404; no flush is answered 412.
C16_FlushModeAgnostic ==
    [][\A w \in Workers :
          (pc[w] = "flush_cs" /\ pc'[w] # pc[w])
          => /\ req'[w].out = IF ReplicaExists(req[w]) THEN "Ok" ELSE "NotFound"
             /\ req'[w].res # "WrongMode"]_vars

\* A flush of a replica of the Local node has been answered 200.
C16_Witness ==
    \E w \in Workers :
        /\ Done(w) /\ req[w].op = "flush"
        /\ Mode(req[w]) = "local"
        /\ req[w].out = "Ok"

ReportOutcomes == {"Ok", "BadRequest", "PreconditionFailed", "NotFound"}

Malformed(q) == q.op = "report" /\ q.load.present /\ ~WellFormed(q.load)

\* C18: a load report with out-of-range fields is classified by the registry
\* first, then by the node's mode, then by its fields: it is answered 404 for an
\* unregistered probe or node, 412 for a Local node and 400 (InvalidLoad) for a
\* Push node, and in all three cases no step of its handler changes the store
\* and nothing is dispatched.
C18_ClassificationOrder ==
    [][\A w \in Workers :
          /\ (pc'[w] # pc[w] /\ Malformed(req'[w])) => store' = store
          /\ (Completes(w) /\ Malformed(req'[w]))
             => LET q == req'[w] IN
                /\ q.res = CASE Mode(q) = None -> "NotFound"
                             [] Mode(q) = "local" -> "WrongMode"
                             [] Mode(q) = "push" -> "InvalidLoad"
                /\ q.out = CASE Mode(q) = None -> "NotFound"
                             [] Mode(q) = "local" -> "PreconditionFailed"
                             [] Mode(q) = "push" -> "BadRequest"
                /\ q.applied = None
                /\ q.ndisp = 0]_vars

\* The same out-of-range load has been answered 412 on the Local node by one
\* worker and 400 on the Push node by the other.
C18_Witness ==
    \E w, v \in Workers :
        /\ Done(w) /\ Malformed(req[w]) /\ Mode(req[w]) = "local"
        /\ req[w].out = "PreconditionFailed"
        /\ Done(v) /\ Malformed(req[v]) /\ Mode(req[v]) = "push"
        /\ req[v].out = "BadRequest"
        /\ req[w].load = req[v].load

\* C19: in every reachable state the Disabled set holds registered probe ids
\* only.
C19_DisabledSubsetOfRegistered ==
    disabled \subseteq RegisteredProbes

\* A disable of an unregistered id has been refused while a registered probe
\* is disabled.
C19_Witness ==
    /\ disabled # {}
    /\ \E w \in Workers :
          /\ Done(w) /\ req[w].op = "disable"
          /\ req[w].probe \notin RegisteredProbes
          /\ req[w].out = "CouldNotFindService"

ActingOp(w) == IF req'[w].op # None THEN req'[w].op ELSE req[w].op

\* C20: no step of a report, a flush, index, status_text or badge changes the
\* Disabled set, and no step of a disable or an enable changes a replica state,
\* a probe status or the stored overall status.
C20_Frame ==
    [][\A w \in Workers :
          pc'[w] # pc[w]
          => /\ ActingOp(w) \in {"report", "flush", "index", "status_text", "badge"}
                => disabled' = disabled
             /\ ActingOp(w) \in {"disable", "enable"}
                => /\ replicas' = replicas
                   /\ probeStatus' = probeStatus
                   /\ status' = status]_vars

\* A probe has just been disabled and the stored overall status is still the
\* one computed with it.
C20_Witness ==
    \E w \in Workers :
        /\ Done(w) /\ req[w].op = "disable" /\ req[w].out = "Listing"
        /\ req[w].probe \in disabled
        /\ status = "sick"
        /\ OverallStatusOf(probeStatus, disabled) = "healthy"

====
